---------------------------- MODULE Spec2Model ----------------------------
(***************************************************************************)
(* Cocktail / meal pairing server (src/app.js).                            *)
(*                                                                         *)
(* The module models                                                       *)
(*   - the three static tables as module-level arrays (JavaScript `const`  *)
(*     bindings of mutable arrays), held in state variables;               *)
(*   - the pure helpers normalizeDrinkDetails, extractPairingKeys,         *)
(*     pickOne and pickPairingRule as operators;                           *)
(*   - fetchMealsByRule as a suspended frame that is resumed once per      *)
(*     completed meal lookup;                                              *)
(*   - the five route handlers as per-request processes that suspend at    *)
(*     each awaited upstream call.                                         *)
(*                                                                         *)
(* JavaScript values are records tagged by `t`.  A string is kept as its   *)
(* lowercase, trimmed text (`core`) together with two flags: `upper`, some *)
(* letter of it is upper case, and `padded`, it carries leading or         *)
(* trailing whitespace.  toLowerCase clears the first flag and trim the    *)
(* second, so two strings are equal exactly when the records are.          *)
(* Objects of the rule tables carry their identity in `obj`, since two     *)
(* rules of different tables may hold the same type and value.             *)
(***************************************************************************)
EXTENDS Integers, Sequences, FiniteSets, TLC

VARIABLES
  FILLERS,             \* src/app.js:32   const FILLERS = [...]
  PAIRING_CANDIDATES,  \* src/app.js:40   const PAIRING_CANDIDATES = [...]
  DEFAULT_PAIRINGS,    \* src/app.js:105  const DEFAULT_PAIRINGS = [...]
  fn,                  \* one direct call of a helper function and its result
  reqs                 \* the requests being handled, by request id

vars == << FILLERS, PAIRING_CANDIDATES, DEFAULT_PAIRINGS, fn, reqs >>

tables == << FILLERS, PAIRING_CANDIDATES, DEFAULT_PAIRINGS >>

---------------------------------------------------------------------------
(* Bounds of the model. *)

\* Math.random() yields n / RandDen for n in 0 .. RandDen - 1.
RandDen == 12

\* Longest ingredient list handed to pickPairingRule directly.
MaxIngr == 3

\* Most slots of a raw drink record that carry a name or a measure.
MaxFilled == 3

\* Longest result list the meal API returns.
MaxMeals == 7

\* Requests handled concurrently.
NumReq == 2

---------------------------------------------------------------------------
(* JavaScript values. *)

Undefined == [t |-> "undefined"]

Null == [t |-> "null"]

Raw(core, upper, padded) ==
  [t |-> "string", core |-> core, upper |-> upper, padded |-> padded]

\* A string literal that is already lower case and trimmed.
Str(core) == Raw(core, FALSE, FALSE)

\* An array value where it may also be null (a field of an API response).
Arr(items) == [t |-> "array", items |-> items]

\* ToBoolean: null, undefined and '' are falsy; other strings, every array (the
\* empty one too) and every object are truthy.
Truthy(v) ==
  \/ v.t \in {"array", "object"}
  \/ v.t = "string" /\ (v.core # "" \/ v.padded)

\* a || b
OrElse(a, b) == IF Truthy(a) THEN a ELSE b

\* arr[0] of an array value
First(arr) == IF Len(arr.items) > 0 THEN arr.items[1] ELSE Undefined

\* String.prototype.toLowerCase
ToLowerCase(s) == [s EXCEPT !.upper = FALSE]

\* String.prototype.trim
Trim(s) == [s EXCEPT !.padded = FALSE]

\* Array.prototype.includes
Includes(arr, x) == \E i \in 1..Len(arr) : arr[i] = x

\* Array.prototype.map
Map(arr, F(_)) == [i \in 1..Len(arr) |-> F(arr[i])]

\* Array.prototype.slice(-n): the last n elements.
SliceLast(arr, n) == SubSeq(arr, IF Len(arr) < n THEN 1 ELSE Len(arr) - n + 1, Len(arr))

\* Array.prototype.slice(0, n)
Slice0(arr, n) == SubSeq(arr, 1, IF Len(arr) < n THEN Len(arr) ELSE n)

Rule(obj, type, value) == [obj |-> obj, type |-> type, value |-> value]

---------------------------------------------------------------------------
(* The static tables as declared ("c," stands for c with cedilla). *)

FILLERS_DECL ==
  << Str("ice"), Str("salt"), Str("sugar"), Str("water"),
     Str("soda water"), Str("club soda"), Str("tonic water"), Str("ginger ale"),
     Str("lemon juice"), Str("lime juice"), Str("orange juice"), Str("cranberry juice"),
     Str("pineapple juice"), Str("simple syrup"), Str("syrup"), Str("grenadine"),
     Str("angostura bitters"), Str("bitters"), Str("mint"), Str("basil"),
     Str("rosemary"), Str("egg white"), Str("cream"), Str("milk"),
     Str("half-and-half") >>

PAIRING_CANDIDATES_DECL ==
  <<
     [ keys |-> << Str("tequila"), Str("mezcal") >>,
       options |-> <<
         Rule(<<1, 1>>, "area", "Mexican"),
         Rule(<<1, 2>>, "category", "Pork"),
         Rule(<<1, 3>>, "category", "Seafood") >> ],
     [ keys |-> << Str("rum") >>,
       options |-> <<
         Rule(<<2, 1>>, "area", "Jamaican"),
         Rule(<<2, 2>>, "area", "Cuban"),
         Rule(<<2, 3>>, "category", "Dessert") >> ],
     [ keys |-> << Str("gin") >>,
       options |-> <<
         Rule(<<3, 1>>, "category", "Seafood"),
         Rule(<<3, 2>>, "category", "Vegetarian"),
         Rule(<<3, 3>>, "area", "British") >> ],
     [ keys |-> << Str("vodka") >>,
       options |-> <<
         Rule(<<4, 1>>, "category", "Pasta"),
         Rule(<<4, 2>>, "area", "Russian"),
         Rule(<<4, 3>>, "category", "Chicken") >> ],
     [ keys |-> << Str("whiskey"), Str("whisky"), Str("bourbon"), Str("rye"), Str("scotch") >>,
       options |-> <<
         Rule(<<5, 1>>, "category", "Beef"),
         Rule(<<5, 2>>, "category", "Pork"),
         Rule(<<5, 3>>, "area", "American") >> ],
     [ keys |-> << Str("brandy"), Str("cognac") >>,
       options |-> <<
         Rule(<<6, 1>>, "category", "Lamb"),
         Rule(<<6, 2>>, "category", "Beef"),
         Rule(<<6, 3>>, "area", "French") >> ],
     [ keys |-> << Str("campari"), Str("aperol"), Str("vermouth") >>,
       options |-> <<
         Rule(<<7, 1>>, "category", "Seafood"),
         Rule(<<7, 2>>, "category", "Pasta"),
         Rule(<<7, 3>>, "area", "Italian") >> ],
     [ keys |-> << Str("triple sec"), Str("cointreau"), Str("grand marnier"), Str("curac,ao"), Str("curacao"), Str("amaretto") >>,
       options |-> <<
         Rule(<<8, 1>>, "category", "Dessert"),
         Rule(<<8, 2>>, "category", "Cake"),
         Rule(<<8, 3>>, "category", "Pancake") >> ],
     [ keys |-> << Str("sotol") >>,
       options |-> <<
         Rule(<<9, 1>>, "area", "Mexican"),
         Rule(<<9, 2>>, "category", "Beef") >> ],
     [ keys |-> << Str("cachac,a"), Str("cacacha"), Str("aguardiente") >>,
       options |-> <<
         Rule(<<10, 1>>, "area", "Brazilian"),
         Rule(<<10, 2>>, "category", "Beef") >> ],
     [ keys |-> << Str("ouzo"), Str("pastis"), Str("arak"), Str("raki"), Str("sambuca") >>,
       options |-> <<
         Rule(<<11, 1>>, "area", "Greek"),
         Rule(<<11, 2>>, "category", "Seafood") >> ],
     [ keys |-> << Str("sake"), Str("soju"), Str("shochu") >>,
       options |-> <<
         Rule(<<12, 1>>, "area", "Japanese"),
         Rule(<<12, 2>>, "category", "Seafood") >> ]
  >>

DEFAULT_PAIRINGS_DECL ==
  << Rule(<<0, 1>>, "area", "Italian"),
     Rule(<<0, 2>>, "area", "Thai"),
     Rule(<<0, 3>>, "area", "Indian"),
     Rule(<<0, 4>>, "category", "Seafood"),
     Rule(<<0, 5>>, "category", "Vegetarian"),
     Rule(<<0, 6>>, "category", "Chicken") >>

---------------------------------------------------------------------------
(* Drink Normalizer: normalizeDrinkDetails, src/app.js:19-27. *)

\* The numbered slots of a raw drink record: strIngredient1..15, strMeasure1..15.
NumSlots == 15

\* The loop body from slot i on, with the list built so far:
\*   const ing = drink[`strIngredient${i}`]; const mea = drink[`strMeasure${i}`];
\*   if (ing) ingredients.push({ ingredient: ing, measure: mea || '' });
RECURSIVE NormalizeLoop(_, _, _)
NormalizeLoop(drink, i, ingredients) ==
  IF i > NumSlots THEN ingredients
  ELSE LET ing == drink.strIngredient[i]
           mea == drink.strMeasure[i]
       IN  NormalizeLoop(drink, i + 1,
             IF Truthy(ing)
               THEN Append(ingredients, [ingredient |-> ing, measure |-> OrElse(mea, Str(""))])
               ELSE ingredients)

\* The same with `if (ing || mea)`: a slot is kept when either field is populated.
normalizeDrinkDetailsKeepsMeasureOnly(drink) ==
  LET F[j \in 1..(NumSlots + 1)] ==
        IF j > NumSlots THEN << >>
        ELSE LET ing == drink.strIngredient[j]
                 mea == drink.strMeasure[j]
             IN  IF Truthy(ing) \/ Truthy(mea)
                   THEN << [ingredient |-> ing, measure |-> OrElse(mea, Str(""))] >> \o F[j + 1]
                   ELSE F[j + 1]
  IN  [f \in (DOMAIN drink) \cup {"ingredients"} |->
         IF f = "ingredients" THEN F[1] ELSE drink[f]]

\* return { ...drink, ingredients }
normalizeDrinkDetails(drink) ==
  LET ingredients == NormalizeLoop(drink, 1, << >>)
  IN  [f \in (DOMAIN drink) \cup {"ingredients"} |->
         IF f = "ingredients" THEN ingredients ELSE drink[f]]

---------------------------------------------------------------------------
(* Pairing Rule Selector: pickOne, extractPairingKeys, pickPairingRule,    *)
(* src/app.js:115-136.                                                     *)

\* The values of Math.random(): n stands for n / RandDen, in [0, 1).
Random == 0..(RandDen - 1)

\* An array read: undefined outside the array.
At(arr, k) == IF k \in 0..(Len(arr) - 1) THEN arr[k + 1] ELSE Undefined

\* arr[Math.round(Math.random() * arr.length)]: may index one past the end.
pickOneRounding(arr, n) == At(arr, (2 * n * Len(arr) + RandDen) \div (2 * RandDen))

\* arr[Math.floor(Math.random() * arr.length)]
pickOne(arr, n) == At(arr, (n * Len(arr)) \div RandDen)

\* The keywords without toLowerCase.
extractPairingKeysCaseSensitive(ingredients) ==
  SelectSeq(Map(ingredients, LAMBDA i : Trim(OrElse(i.ingredient, Str("")))),
            LAMBDA x : Truthy(x) /\ ~Includes(FILLERS, x))

\* ingredients.map(i => (i.ingredient || '').toLowerCase().trim())
\*            .filter(x => x && !FILLERS.includes(x))
extractPairingKeys(ingredients) ==
  SelectSeq(Map(ingredients, LAMBDA i : Trim(ToLowerCase(OrElse(i.ingredient, Str(""))))),
            LAMBDA x : Truthy(x) /\ ~Includes(FILLERS, x))

\* group.keys.some(k => keys.includes(k))
GroupMatches(group, keys) == \E j \in 1..Len(group.keys) : Includes(keys, group.keys[j])

\* for (const group of PAIRING_CANDIDATES) { if (...) return pickOne(group.options); }
\* return pickOne(DEFAULT_PAIRINGS);      -- from group g on
RECURSIVE PickLoop(_, _, _)
PickLoop(keys, g, n) ==
  IF g > Len(PAIRING_CANDIDATES) THEN pickOne(DEFAULT_PAIRINGS, n)
  ELSE IF GroupMatches(PAIRING_CANDIDATES[g], keys)
         THEN pickOne(PAIRING_CANDIDATES[g].options, n)
         ELSE PickLoop(keys, g + 1, n)

pickPairingRule(ingredients, n) == PickLoop(extractPairingKeys(ingredients), 1, n)

---------------------------------------------------------------------------
(* Direct calls of the pure helpers. *)

NoRequests == << >>

InitTables ==
  /\ FILLERS = FILLERS_DECL
  /\ PAIRING_CANDIDATES = PAIRING_CANDIDATES_DECL
  /\ DEFAULT_PAIRINGS = DEFAULT_PAIRINGS_DECL

\* Ingredient names as the cocktail API spells them: "Tequila", " Triple sec ",
\* "Lime juice", "Ice", " Soda water ", "gin", "Kahlua", "Dark rum", " sake ", "  ".
IngredientNames ==
  { Raw("tequila", TRUE, FALSE), Raw("triple sec", TRUE, TRUE),
    Raw("lime juice", TRUE, FALSE), Raw("ice", TRUE, FALSE),
    Raw("soda water", TRUE, TRUE), Str("gin"), Raw("kahlua", TRUE, FALSE),
    Raw("dark rum", TRUE, FALSE), Raw("sake", FALSE, TRUE), Raw("", FALSE, TRUE) }

Ingredients(names) == Map(names, LAMBDA x : [ingredient |-> x, measure |-> Str("")])

InitSelect ==
  /\ InitTables
  /\ reqs = NoRequests
  /\ \E k \in 0..MaxIngr :
       \E names \in [1..k -> IngredientNames] :
         fn = [op |-> "pickPairingRule", pc |-> "called", arg |-> Ingredients(names),
               ret |-> Undefined]

PickReturns ==
  /\ fn.op = "pickPairingRule" /\ fn.pc = "called"
  /\ \E n \in Random :
       fn' = [fn EXCEPT !.pc = "returned", !.ret = pickPairingRule(fn.arg, n)]
  /\ UNCHANGED << tables, reqs >>

NextSelect == PickReturns

SpecSelect == InitSelect /\ [][NextSelect]_vars

\* The names and the measure the populated slots of the sampled records carry.
SlotNames ==
  << "Light rum", "Lime", "Sugar", "Mint", "Soda water", "Gin", "Tonic water", "Vodka",
     "Kahlua", "Cream", "Tequila", "Triple sec", "Salt", "Bourbon", "Bitters" >>

SlotName(i) == Raw(SlotNames[i], TRUE, FALSE)

SlotMeasure == Raw("1 oz", FALSE, TRUE)

\* What a slot of a sampled record holds: (name, measure).
SlotKinds == {"both", "name", "emptyName", "measure"}

SlotIngredient(i, kind) ==
  CASE kind \in {"both", "name"} -> SlotName(i)
    [] kind = "emptyName" -> Str("")
    [] OTHER -> Null

SlotMeasureOf(kind) ==
  CASE kind \in {"both", "emptyName", "measure"} -> SlotMeasure
    [] OTHER -> Null

\* A raw drink record of the cocktail API whose slots outside S are null.
RawDrink(S, kinds) ==
  [ t             |-> "object",
    idDrink       |-> Str("11007"),
    strDrink      |-> Raw("margarita", TRUE, FALSE),
    strIngredient |-> [i \in 1..NumSlots |-> IF i \in S THEN SlotIngredient(i, kinds[i]) ELSE Null],
    strMeasure    |-> [i \in 1..NumSlots |-> IF i \in S THEN SlotMeasureOf(kinds[i]) ELSE Null] ]

InitNormalize ==
  /\ InitTables
  /\ reqs = NoRequests
  /\ \E S \in SUBSET (1..NumSlots) :
       /\ Cardinality(S) <= MaxFilled
       /\ \E kinds \in [S -> SlotKinds] :
            fn = [op |-> "normalizeDrinkDetails", pc |-> "called",
                  arg |-> RawDrink(S, kinds), ret |-> Undefined]

NormalizeReturns ==
  /\ fn.op = "normalizeDrinkDetails" /\ fn.pc = "called"
  /\ fn' = [fn EXCEPT !.pc = "returned", !.ret = normalizeDrinkDetails(fn.arg)]
  /\ UNCHANGED << tables, reqs >>

NextNormalize == NormalizeReturns

SpecNormalize == InitNormalize /\ [][NextNormalize]_vars

---------------------------------------------------------------------------
(***************************************************************************)
(* Meal Fetcher: fetchMealsByRule, src/app.js:139-178.                     *)
(*                                                                         *)
(* A call is a frame.  `pc` is the await the call is suspended at          *)
(* ("primary", "fallback") or how it completed ("returned", "threw");      *)
(* `inflight` is the set of meal lookups issued and not yet completed and  *)
(* `log` the lookups issued so far, each with the number of meals it       *)
(* delivered once completed; `caught` tells whether a catch block of the   *)
(* call has run.                                                           *)
(***************************************************************************)

\* A lookup as axios issues it: filter.php?a=<value> or filter.php?c=<value>.
Lookup(key, value) == [url |-> "themealdb/filter.php", key |-> key, value |-> value]

Threw == [kind |-> "throw"]

Ok(data) == [kind |-> "ok", data |-> data]

\* A result list of n meals, newest id first (the API's order is not ascending).
MealList(n) == [i \in 1..n |-> [idMeal |-> 52770 + n - i]]

\* How a meal lookup may complete: a rejected promise, { meals: null }, or
\* { meals: [...] } with 0 .. MaxMeals entries.
FailedMealOutcomes == { Threw, Ok([meals |-> Null]), Ok([meals |-> Arr(<< >>)]) }

FoundMealOutcomes == { Ok([meals |-> Arr(MealList(n))]) : n \in 1..MaxMeals }

\* The orders Array.prototype.sort may leave six elements in when the comparator
\* answers at random: any permutation.
SortOrders == Permutations(1..Len(DEFAULT_PAIRINGS_DECL))

Permute(arr, order) == [i \in 1..Len(arr) |-> arr[order[i]]]

\* A shuffle that draws every entry at random from the array: entries may repeat.
ShuffleWithRepeats(arr, order) ==
  [table |-> arr,
   shuffled |-> [i \in 1..Len(arr) |-> arr[order[IF i = Len(arr) THEN 1 ELSE i]]]]

\* DEFAULT_PAIRINGS.sort(() => Math.random() - 0.5): sorts the table itself.
ShuffleInPlace(arr, order) ==
  [table |-> Permute(arr, order), shuffled |-> Permute(arr, order)]

\* const shuffled = [...DEFAULT_PAIRINGS].sort(() => Math.random() - 0.5);
\* `table` is the array passed in as the statement leaves it.
Shuffle(arr, order) ==
  [table |-> arr, shuffled |-> Permute([i \in 1..Len(arr) |-> arr[i]], order)]

\* The number of meals a completed lookup delivered: none when it was rejected
\* or answered { meals: null }.
Delivered(outcome) ==
  IF outcome.kind = "ok" /\ outcome.data.meals.t = "array"
    THEN Len(outcome.data.meals.items) ELSE 0

Issue(frame, lookup) ==
  [frame EXCEPT !.inflight = @ \cup {lookup},
                !.log = Append(@, [lookup |-> lookup, completed |-> FALSE, n |-> 0])]

\* The lookup in flight completes; the log keeps how many meals it delivered.
Complete(frame, outcome) ==
  [frame EXCEPT !.inflight = { },
                !.log = [@ EXCEPT ![Len(@)] =
                           [@ EXCEPT !.completed = TRUE, !.n = Delivered(outcome)]]]

Return(frame, value) == [frame EXCEPT !.pc = "returned", !.ret = value]

\* The fallback lookup of fb, src/app.js:161-174: by area, else by category.
FallbackLookup(fb) ==
  IF fb.type = "area" THEN Lookup("a", fb.value) ELSE Lookup("c", fb.value)

\* for (const fb of shuffled) { try { ... await axios.get(...)  -- up to the await
\* of entry i, or `return []` past the end.
TryFallback(frame, i) ==
  IF i > Len(frame.shuffled)
    THEN Return(frame, << >>)
    ELSE Issue([frame EXCEPT !.pc = "fallback", !.i = i],
               FallbackLookup(frame.shuffled[i]))

\* Lines 158-160: the statement that shuffles, then the first fallback.
EnterCascade(frame, order) ==
  LET s == Shuffle(DEFAULT_PAIRINGS, order)
  IN  [table |-> s.table,
       frame |-> TryFallback([frame EXCEPT !.shuffled = s.shuffled], 1)]

\* The call up to its first await, src/app.js:139-153.  A rule of any other type
\* issues no primary lookup and falls through to the cascade.
FetchCall(rule, order) ==
  LET frame == [pc |-> "primary", rule |-> rule, shuffled |-> << >>, i |-> 0,
                inflight |-> { }, log |-> << >>, caught |-> FALSE, ret |-> << >>]
  IN  IF rule.type = "area"
        THEN [table |-> DEFAULT_PAIRINGS, frame |-> Issue(frame, Lookup("a", rule.value))]
      ELSE IF rule.type = "category"
        THEN [table |-> DEFAULT_PAIRINGS, frame |-> Issue(frame, Lookup("c", rule.value))]
      ELSE EnterCascade(frame, order)

\* The fallback loop without its try/catch: a rejected lookup leaves the call.
FetchResumeUncaught(frame0, outcome, order) ==
  LET frame == [Complete(frame0, outcome) EXCEPT
                  !.caught = @ \/ (outcome.kind = "throw" /\ frame0.pc = "primary")]
      meals == IF outcome.kind = "ok"
                 THEN OrElse(outcome.data.meals, Arr(<< >>)).items ELSE << >>
  IN  IF outcome.kind = "ok" /\ Len(meals) # 0
        THEN [table |-> DEFAULT_PAIRINGS, frame |-> Return(frame, Slice0(meals, 6))]
      ELSE IF frame.pc = "primary"
        THEN EnterCascade(frame, order)
      ELSE IF outcome.kind = "throw"
        THEN [table |-> DEFAULT_PAIRINGS, frame |-> [frame EXCEPT !.pc = "threw"]]
      ELSE [table |-> DEFAULT_PAIRINGS, frame |-> TryFallback(frame, frame.i + 1)]

\* The call resumed by the completion of its lookup in flight:
\*   const meals = (data.meals || []); if (meals.length) return meals.slice(0, 6);
\* a rejection is caught (lines 154-156, 175); after the primary lookup comes the
\* cascade, after fallback i comes fallback i + 1.
FetchResume(frame0, outcome, order) ==
  LET frame == [Complete(frame0, outcome) EXCEPT !.caught = @ \/ outcome.kind = "throw"]
      meals == IF outcome.kind = "ok"
                 THEN OrElse(outcome.data.meals, Arr(<< >>)).items ELSE << >>
  IN  IF outcome.kind = "ok" /\ Len(meals) # 0
        THEN [table |-> DEFAULT_PAIRINGS, frame |-> Return(frame, Slice0(meals, 6))]
      ELSE IF frame.pc = "primary"
        THEN EnterCascade(frame, order)
      ELSE [table |-> DEFAULT_PAIRINGS, frame |-> TryFallback(frame, frame.i + 1)]

\* The order that leaves an array as it is; stands in where no sort happens.
SameOrder == [i \in 1..Len(DEFAULT_PAIRINGS_DECL) |-> i]

---------------------------------------------------------------------------
(* Direct calls of fetchMealsByRule. *)

\* The rules handed in: one by area, one by category.
FetchRules == { PAIRING_CANDIDATES_DECL[1].options[1], DEFAULT_PAIRINGS_DECL[4] }

InitFetch ==
  /\ InitTables
  /\ reqs = NoRequests
  /\ \E rule \in FetchRules :
       fn = [op |-> "fetchMealsByRule", pc |-> "called", arg |-> rule,
             frame |-> Undefined, ret |-> Undefined]

FnUpdate(next) ==
  /\ DEFAULT_PAIRINGS' = next.table
  /\ fn' = [fn EXCEPT !.frame = next.frame,
                      !.pc = IF next.frame.pc \in {"returned", "threw"}
                               THEN next.frame.pc ELSE "awaiting",
                      !.ret = IF next.frame.pc = "returned"
                                THEN next.frame.ret ELSE Undefined]
  /\ UNCHANGED << FILLERS, PAIRING_CANDIDATES, reqs >>

FetchCalled ==
  /\ fn.op = "fetchMealsByRule" /\ fn.pc = "called"
  /\ \E order \in (IF fn.arg.type \in {"area", "category"} THEN {SameOrder} ELSE SortOrders) :
       FnUpdate(FetchCall(fn.arg, order))

FetchLookupFinds ==
  /\ fn.op = "fetchMealsByRule" /\ fn.pc = "awaiting"
  /\ \E outcome \in FoundMealOutcomes :
       FnUpdate(FetchResume(fn.frame, outcome, SameOrder))

FetchPrimaryFails ==
  /\ fn.op = "fetchMealsByRule" /\ fn.pc = "awaiting" /\ fn.frame.pc = "primary"
  /\ \E outcome \in FailedMealOutcomes, order \in SortOrders :
       FnUpdate(FetchResume(fn.frame, outcome, order))

FetchFallbackFails ==
  /\ fn.op = "fetchMealsByRule" /\ fn.pc = "awaiting" /\ fn.frame.pc = "fallback"
  /\ \E outcome \in FailedMealOutcomes :
       FnUpdate(FetchResume(fn.frame, outcome, SameOrder))

NextFetch ==
  \/ FetchCalled
  \/ FetchLookupFinds
  \/ FetchPrimaryFails
  \/ FetchFallbackFails

\* Every lookup in flight completes: the steps of a call are weakly fair.
SpecFetch == InitFetch /\ [][NextFetch]_vars /\ WF_vars(NextFetch)

---------------------------------------------------------------------------
(***************************************************************************)
(* Routes, src/app.js:181-266.                                             *)
(*                                                                         *)
(* A request is a process: `pc` is "idle" before it arrives, "cocktail"    *)
(* while its handler awaits the cocktail API, "meals" while the handler    *)
(* awaits fetchMealsByRule, and "done" once the handler has finished.      *)
(* `calls` lists the cocktail API calls the handler issued, each with how  *)
(* it settled and the number of records it delivered; `frame` is the       *)
(* handler's call of fetchMealsByRule and `res` the responses written.     *)
(***************************************************************************)

Idle ==
  [route |-> "none", pc |-> "idle", input |-> Undefined, drink |-> Undefined,
   pairingRule |-> Undefined, frame |-> Undefined, calls |-> << >>, res |-> << >>]

\* axios.get of a cocktail API endpoint with one query parameter.
Call(endpoint, key, value) ==
  [url |-> "thecocktaildb/" \o endpoint, key |-> key, value |-> value]

\* res.render(view, locals)
Render(view, locals) == [kind |-> "render", view |-> view, locals |-> locals]

\* res.render('error', { message })
RenderError(message) == Render("error", [message |-> message])

\* res.redirect(to)
Redirect(to) == [kind |-> "redirect", to |-> to]

Respond(req, response) == [req EXCEPT !.pc = "done", !.res = Append(@, response)]

Await(req, route, input, call) ==
  [req EXCEPT !.route = route, !.pc = "cocktail", !.input = input,
              !.calls = Append(@, [call |-> call, state |-> "pending", n |-> 0])]

\* The awaited call settles: rejected, or answered with n records.
Settle(req, outcome) ==
  [req EXCEPT !.calls[Len(req.calls)] =
     [@ EXCEPT !.state = IF outcome.kind = "throw" THEN "rejected" ELSE "answered",
               !.n = IF outcome.kind = "ok" /\ outcome.data.drinks.t = "array"
                       THEN Len(outcome.data.drinks.items) ELSE 0]]

\* The message of each route's catch block.
CatchMessage(route) ==
  CASE route = "home"     -> "Failed to load home page data. Please try again."
    [] route = "search"   -> "Search failed. Please try different terms."
    [] route = "random"   -> "Could not fetch a random cocktail right now."
    [] route = "drink"    -> "Could not load drink details."
    [] route = "category" -> "Could not load category."

\* How a cocktail API call may complete: a rejected promise, { drinks: null }, or
\* { drinks: [...] }.
CocktailOutcomes(lists) ==
  { Threw, Ok([drinks |-> Null]) } \cup { Ok([drinks |-> Arr(l)]) : l \in lists }

\* The answers of list.php?c=list.
CategoryLists ==
  { << [strCategory |-> Raw("cocktail", TRUE, FALSE)],
       [strCategory |-> Raw("shot", TRUE, FALSE)] >> }

\* The answers of search.php, filter.php?i= and filter.php?c=.
DrinkSummaries ==
  { << >>,
    << [idDrink |-> Str("11007"), strDrink |-> Raw("margarita", TRUE, FALSE)] >> }

\* A raw drink record whose first slots hold the given names, each with a measure.
DrinkOf(id, names) ==
  [ t             |-> "object",
    idDrink       |-> Str(id),
    strDrink      |-> Raw("drink " \o id, TRUE, FALSE),
    strIngredient |-> [i \in 1..NumSlots |-> IF i <= Len(names) THEN names[i] ELSE Null],
    strMeasure    |-> [i \in 1..NumSlots |-> IF i <= Len(names) THEN SlotMeasure ELSE Null] ]

\* "Tequila", "Triple sec", "Lime juice"
Margarita ==
  DrinkOf("11007", << Raw("tequila", TRUE, FALSE), Raw("triple sec", TRUE, FALSE),
                      Raw("lime juice", TRUE, FALSE) >>)

\* "Ice", "Soda water": fillers only
IcedSoda == DrinkOf("17222", << Raw("ice", TRUE, FALSE), Raw("soda water", TRUE, FALSE) >>)

\* "Sake", "Lime juice": a group with two options
SakeBomb == DrinkOf("178340", << Raw("sake", TRUE, FALSE), Raw("lime juice", TRUE, FALSE) >>)

\* What a form field of the search page may hold: absent, '', '  ', ' Margarita ',
\* 'gin'.
FormFields ==
  { Undefined, Str(""), Raw("", FALSE, TRUE), Raw("margarita", TRUE, TRUE), Str("gin") }

\* a && b
AndThen(a, b) == IF Truthy(a) THEN b ELSE a

(* app.get('/'), src/app.js:181-188, and fetchCategories, src/app.js:14-17. *)

GetHomeCalled(req) == Await(req, "home", Undefined, Call("list.php", "c", Str("list")))

\* The handler without its try/catch: a rejected call ends it with no response.
GetHomeResumedUncaught(req0, outcome) ==
  LET req == Settle(req0, outcome) IN
  IF outcome.kind = "throw"
    THEN [req EXCEPT !.pc = "done"]
    ELSE LET categories == Map(OrElse(outcome.data.drinks, Arr(<< >>)).items,
                               LAMBDA d : d.strCategory)
         IN  Respond(req, Render("index", [categories |-> categories, error |-> Null]))

GetHomeResumed(req0, outcome) ==
  LET req == Settle(req0, outcome) IN
  IF outcome.kind = "throw"
    THEN Respond(req, RenderError(CatchMessage("home")))
    ELSE LET categories == Map(OrElse(outcome.data.drinks, Arr(<< >>)).items,
                               LAMBDA d : d.strCategory)
         IN  Respond(req, Render("index", [categories |-> categories, error |-> Null]))

(* app.post('/search'), src/app.js:190-216. *)

\* The same testing `name` and `ingredient` without trim().
PostSearchCalledUntrimmed(req, body) ==
  IF Truthy(body.name)
    THEN Await(req, "search", [body |-> body, by |-> "name"],
               Call("search.php", "s", Trim(body.name)))
  ELSE IF Truthy(body.ingredient)
    THEN Await(req, "search", [body |-> body, by |-> "ingredient"],
               Call("filter.php", "i", Trim(body.ingredient)))
  ELSE Respond([req EXCEPT !.route = "search", !.input = [body |-> body, by |-> "none"]],
               Redirect("/"))

PostSearchCalled(req, body) ==
  IF Truthy(AndThen(body.name, IF body.name.t = "string" THEN Trim(body.name) ELSE Undefined))
    THEN Await(req, "search", [body |-> body, by |-> "name"],
               Call("search.php", "s", Trim(body.name)))
  ELSE IF Truthy(AndThen(body.ingredient,
                         IF body.ingredient.t = "string" THEN Trim(body.ingredient)
                                                         ELSE Undefined))
    THEN Await(req, "search", [body |-> body, by |-> "ingredient"],
               Call("filter.php", "i", Trim(body.ingredient)))
  ELSE Respond([req EXCEPT !.route = "search", !.input = [body |-> body, by |-> "none"]],
               Redirect("/"))

PostSearchResumed(req0, outcome) ==
  LET req == Settle(req0, outcome) IN
  IF outcome.kind = "throw"
    THEN Respond(req, RenderError(CatchMessage("search")))
    ELSE LET data == OrElse(outcome.data.drinks, Arr(<< >>)).items
             heading ==
               IF req.input.by = "name"
                 THEN [text |-> "Results for name: ", quoted |-> Trim(req.input.body.name)]
                 ELSE [text |-> "Results with ingredient: ",
                       quoted |-> Trim(req.input.body.ingredient)]
         IN  Respond(req, Render("results", [drinks |-> data, heading |-> heading]))

(* app.get('/category/:name'), src/app.js:252-266. *)

GetCategoryCalled(req, name) == Await(req, "category", name, Call("filter.php", "c", name))

GetCategoryResumed(req0, outcome) ==
  LET req == Settle(req0, outcome) IN
  IF outcome.kind = "throw"
    THEN Respond(req, RenderError(CatchMessage("category")))
    ELSE Respond(req, Render("results",
                   [drinks  |-> OrElse(outcome.data.drinks, Arr(<< >>)).items,
                    heading |-> [text |-> "Category: ", quoted |-> req.input]]))

(* app.get('/random'), src/app.js:218-232, and app.get('/drink/:id'),       *)
(* src/app.js:234-250.                                                      *)

GetRandomCalled(req) == Await(req, "random", Undefined, Call("random.php", "", Undefined))

GetDrinkCalled(req, id) == Await(req, "drink", id, Call("lookup.php", "i", id))

\* A handler that treats an empty meal list as a failure of the page.
AfterFetchEmptyIsError(req, frame) ==
  LET held == [req EXCEPT !.frame = frame]
  IN  CASE frame.pc = "returned" /\ Len(frame.ret) # 0 ->
             Respond(held, Render("cocktail", [drink |-> req.drink, meals |-> frame.ret,
                                               pairingRule |-> req.pairingRule]))
        [] frame.pc \in {"returned", "threw"} ->
             Respond(held, RenderError(CatchMessage(req.route)))
        [] OTHER -> [held EXCEPT !.pc = "meals"]

\* The handler once fetchMealsByRule has been called or resumed: still suspended
\* in it, or rendering the cocktail page with what it returned; a throw of the
\* call would reach the handler's catch block.
AfterFetch(req, frame) ==
  LET held == [req EXCEPT !.frame = frame]
  IN  CASE frame.pc = "returned" ->
             Respond(held, Render("cocktail", [drink |-> req.drink, meals |-> frame.ret,
                                               pairingRule |-> req.pairingRule]))
        [] frame.pc = "threw" -> Respond(held, RenderError(CatchMessage(req.route)))
        [] OTHER -> [held EXCEPT !.pc = "meals"]

\* Lines 224-226 and 242-244, up to `await fetchMealsByRule(pairingRule)`.
PairDrink(req, drink, n, order) ==
  LET normalized  == normalizeDrinkDetails(drink)
      pairingRule == pickPairingRule(normalized.ingredients, n)
      called      == FetchCall(pairingRule, order)
  IN  [table |-> called.table,
       req   |-> AfterFetch([req EXCEPT !.drink = normalized, !.pairingRule = pairingRule],
                            called.frame)]

\* The handler resumed by the completion of random.php or lookup.php:
\*   const drink = data.drinks && data.drinks[0];
\*   random:  if (!drink) throw new Error('No drink found');   -- caught below
\*   by id:   if (!drink) return res.render('error', { message: 'Drink not found.' });
CocktailResumed(req0, outcome, n, order) ==
  LET req == Settle(req0, outcome)
      drink == IF outcome.kind = "ok"
                 THEN AndThen(outcome.data.drinks,
                              IF outcome.data.drinks.t = "array"
                                THEN First(outcome.data.drinks) ELSE Undefined)
                 ELSE Undefined
  IN  IF outcome.kind = "throw"
        THEN [table |-> DEFAULT_PAIRINGS,
              req   |-> Respond(req, RenderError(CatchMessage(req.route)))]
      ELSE IF ~Truthy(drink)
        THEN [table |-> DEFAULT_PAIRINGS,
              req   |-> Respond(req, RenderError(IF req.route = "drink"
                                                   THEN "Drink not found."
                                                   ELSE CatchMessage("random")))]
      ELSE PairDrink(req, drink, n, order)

\* The handler resumed inside fetchMealsByRule by the completion of a meal lookup.
MealsResumed(req, outcome, order) ==
  LET resumed == FetchResume(req.frame, outcome, order)
  IN  [table |-> resumed.table, req |-> AfterFetch(req, resumed.frame)]

---------------------------------------------------------------------------
(* The server: requests arrive and their handlers run between awaits. *)

InitServer(ids) ==
  /\ InitTables
  /\ fn = Undefined
  /\ reqs = [r \in ids |-> Idle]

Step(r, req) ==
  /\ reqs' = [reqs EXCEPT ![r] = req]
  /\ UNCHANGED << tables, fn >>

StepWithTable(r, next) ==
  /\ reqs' = [reqs EXCEPT ![r] = next.req]
  /\ DEFAULT_PAIRINGS' = next.table
  /\ UNCHANGED << FILLERS, PAIRING_CANDIDATES, fn >>

Awaiting(r, route) == reqs[r].pc = "cocktail" /\ reqs[r].route = route

GetHome(r) ==
  /\ reqs[r].pc = "idle"
  /\ Step(r, GetHomeCalled(reqs[r]))

HomeCompletes(r) ==
  /\ Awaiting(r, "home")
  /\ \E outcome \in CocktailOutcomes(CategoryLists) :
       Step(r, GetHomeResumed(reqs[r], outcome))

PostSearch(r) ==
  /\ reqs[r].pc = "idle"
  /\ \E name \in FormFields, ingredient \in FormFields :
       Step(r, PostSearchCalled(reqs[r], [name |-> name, ingredient |-> ingredient]))

SearchCompletes(r) ==
  /\ Awaiting(r, "search")
  /\ \E outcome \in CocktailOutcomes(DrinkSummaries) :
       Step(r, PostSearchResumed(reqs[r], outcome))

GetCategory(r) ==
  /\ reqs[r].pc = "idle"
  /\ \E name \in { Raw("cocktail", TRUE, FALSE) } :
       Step(r, GetCategoryCalled(reqs[r], name))

CategoryCompletes(r) ==
  /\ Awaiting(r, "category")
  /\ \E outcome \in CocktailOutcomes(DrinkSummaries) :
       Step(r, GetCategoryResumed(reqs[r], outcome))

GetRandom(r) ==
  /\ reqs[r].pc = "idle"
  /\ Step(r, GetRandomCalled(reqs[r]))

GetDrink(r) ==
  /\ reqs[r].pc = "idle"
  /\ \E id \in { Str("11007") } :
       Step(r, GetDrinkCalled(reqs[r], id))

\* random.php or lookup.php completes; `drinks` are the records it may deliver.
CocktailCompletes(r, drinks) ==
  /\ Awaiting(r, "random") \/ Awaiting(r, "drink")
  /\ \E outcome \in CocktailOutcomes({ << >> } \cup { << d >> : d \in drinks }),
        n \in Random :
       StepWithTable(r, CocktailResumed(reqs[r], outcome, n, SameOrder))

\* A meal lookup delivers one of the lists of `found`.
MealLookupFinds(r, found) ==
  /\ reqs[r].pc = "meals"
  /\ \E outcome \in found :
       StepWithTable(r, MealsResumed(reqs[r], outcome, SameOrder))

\* The primary lookup fails in one of the ways of `failed`; the sort leaves the
\* copy in one of `orders`.
PrimaryLookupFails(r, failed, orders) ==
  /\ reqs[r].pc = "meals" /\ reqs[r].frame.pc = "primary"
  /\ \E outcome \in failed, order \in orders :
       StepWithTable(r, MealsResumed(reqs[r], outcome, order))

FallbackLookupFails(r, failed) ==
  /\ reqs[r].pc = "meals" /\ reqs[r].frame.pc = "fallback"
  /\ \E outcome \in failed :
       StepWithTable(r, MealsResumed(reqs[r], outcome, SameOrder))

(* One request, any route, every outcome of the sort. *)

OneRequest == { 1 }

ServedDrinks == { Margarita, IcedSoda }

\* The lists a meal lookup delivers to a handler: the shortest and the longest.
ServedMeals == { Ok([meals |-> Arr(MealList(n))]) : n \in { 1, MaxMeals } }

Init == InitServer(OneRequest)

Next ==
  \E r \in OneRequest :
    \/ GetHome(r)
    \/ HomeCompletes(r)
    \/ PostSearch(r)
    \/ SearchCompletes(r)
    \/ GetCategory(r)
    \/ CategoryCompletes(r)
    \/ GetRandom(r)
    \/ GetDrink(r)
    \/ CocktailCompletes(r, ServedDrinks)
    \/ MealLookupFinds(r, ServedMeals)
    \/ PrimaryLookupFails(r, FailedMealOutcomes, SortOrders)
    \/ FallbackLookupFails(r, FailedMealOutcomes)

Spec == Init /\ [][Next]_vars

(* Several requests handled concurrently: cocktail pages and the home page, *)
(* with meal lookups that deliver a full list or are rejected.              *)

Requests == 1..NumReq

\* Two of the orders the sort may produce: unchanged and reversed.
SampledOrders ==
  { SameOrder,
    [i \in 1..Len(DEFAULT_PAIRINGS_DECL) |-> Len(DEFAULT_PAIRINGS_DECL) + 1 - i] }

InitConcurrent == InitServer(Requests)

NextConcurrent ==
  \E r \in Requests :
    \/ GetHome(r)
    \/ HomeCompletes(r)
    \/ GetDrink(r)
    \/ CocktailCompletes(r, { SakeBomb })
    \/ MealLookupFinds(r, { Ok([meals |-> Arr(MealList(MaxMeals))]) })
    \/ PrimaryLookupFails(r, { Threw }, SampledOrders)
    \/ FallbackLookupFails(r, { Threw })

SpecConcurrent == InitConcurrent /\ [][NextConcurrent]_vars


---------------------------------------------------------------------------
(* Claims about the pure helpers. *)

\* The lowercase, trimmed text of an ingredient name.
Canon(x) == Str(x.core)

IsFiller(x) == \E i \in 1..Len(FILLERS_DECL) : FILLERS_DECL[i] = x

IsKeyOf(x, g) ==
  \E j \in 1..Len(PAIRING_CANDIDATES_DECL[g].keys) : PAIRING_CANDIDATES_DECL[g].keys[j] = x

\* The groups some non-filler ingredient name of the list equals a key of.
MatchedGroups(ingredients) ==
  { g \in 1..Len(PAIRING_CANDIDATES_DECL) :
      \E i \in 1..Len(ingredients) :
        /\ ~IsFiller(Canon(ingredients[i].ingredient))
        /\ IsKeyOf(Canon(ingredients[i].ingredient), g) }

FirstOf(S) == CHOOSE g \in S : \A h \in S : g <= h

Elements(arr) == { arr[i] : i \in 1..Len(arr) }

PickReturned == fn.op = "pickPairingRule" /\ fn.pc = "returned"

\* C1: whenever some ingredient name, lowercased and trimmed, is not a filler and
\* equals a key of a candidate group, pickPairingRule returns, for every value of
\* Math.random(), one of the option objects of the first such group in declaration
\* order, and never an object of DEFAULT_PAIRINGS.
C1_FirstMatchingGroup ==
  (PickReturned /\ MatchedGroups(fn.arg) # {}) =>
     /\ fn.ret \in Elements(PAIRING_CANDIDATES_DECL[FirstOf(MatchedGroups(fn.arg))].options)
     /\ fn.ret \notin Elements(DEFAULT_PAIRINGS_DECL)

\* " Triple sec " before "Tequila": the tequila group is declared first and wins.
C1_Witness ==
  /\ PickReturned
  /\ Len(fn.arg) = 3
  /\ fn.arg[1].ingredient = Raw("triple sec", TRUE, TRUE)
  /\ fn.arg[2].ingredient = Raw("tequila", TRUE, FALSE)
  /\ fn.arg[3].ingredient = Raw("lime juice", TRUE, FALSE)
  /\ fn.ret = Rule(<<1, 3>>, "category", "Seafood")

\* C2: when every ingredient name, lowercased and trimmed, is a filler or equals
\* no key of any group (the empty list included), pickPairingRule returns, for
\* every value of Math.random(), one of the six objects of DEFAULT_PAIRINGS.
C2_DefaultWhenNoMatch ==
  (PickReturned /\ MatchedGroups(fn.arg) = {}) =>
     /\ Len(DEFAULT_PAIRINGS_DECL) = 6
     /\ fn.ret \in Elements(DEFAULT_PAIRINGS_DECL)

\* "Ice", " Soda water ": all fillers, a default is picked.
C2_Witness ==
  /\ PickReturned
  /\ Len(fn.arg) = 2
  /\ fn.arg[1].ingredient = Raw("ice", TRUE, FALSE)
  /\ fn.arg[2].ingredient = Raw("soda water", TRUE, TRUE)
  /\ fn.ret = Rule(<<0, 6>>, "category", "Chicken")

NormalizeReturned == fn.op = "normalizeDrinkDetails" /\ fn.pc = "returned"

\* A field that is absent or the empty string.
Blank(v) == v \in {Undefined, Null, Str("")}

\* The slots whose ingredient name is present and non-empty.
NamedSlots(drink) == { i \in 1..NumSlots : ~Blank(drink.strIngredient[i]) }

\* The k-th named slot in ascending order.
NthNamedSlot(drink, k) ==
  CHOOSE i \in NamedSlots(drink) : Cardinality({ j \in NamedSlots(drink) : j < i }) = k - 1

\* C6: the ingredients list of normalizeDrinkDetails holds one entry for exactly
\* the slots whose name is present and non-empty, in ascending slot order, each with
\* the slot's measure or '' when the measure is absent; a slot without a name is left
\* out whatever its measure, and every other field of the record is unchanged.
C6_NormalizedIngredients ==
  NormalizeReturned =>
    LET drink == fn.arg
        out   == fn.ret
    IN  /\ DOMAIN out = (DOMAIN drink) \cup {"ingredients"}
        /\ \A f \in DOMAIN drink : out[f] = drink[f]
        /\ Len(out.ingredients) = Cardinality(NamedSlots(drink))
        /\ \A k \in 1..Len(out.ingredients) :
             LET i == NthNamedSlot(drink, k)
             IN  /\ out.ingredients[k].ingredient = drink.strIngredient[i]
                 /\ out.ingredients[k].measure =
                      IF Blank(drink.strMeasure[i]) THEN Str("") ELSE drink.strMeasure[i]

\* Two named slots (one without a measure) and one slot with only a measure.
C6_Witness ==
  /\ NormalizeReturned
  /\ Len(fn.ret.ingredients) = 2
  /\ fn.ret.ingredients[1].measure = Str("")
  /\ fn.ret.ingredients[2].measure = SlotMeasure
  /\ \E i \in 1..NumSlots :
       Blank(fn.arg.strIngredient[i]) /\ ~Blank(fn.arg.strMeasure[i])

---------------------------------------------------------------------------
(* Claims about fetchMealsByRule. *)

\* A call of fetchMealsByRule that has started running.
FetchRunning == fn.op = "fetchMealsByRule" /\ fn.pc # "called"

FetchReturned == fn.op = "fetchMealsByRule" /\ fn.pc = "returned"

\* The first min(n, 6) of the n meals the API delivered, in the API's order.
FirstSix(n) == [i \in 1..(IF n < 6 THEN n ELSE 6) |-> MealList(n)[i]]

\* The lookup that asks the meal API for the meals of a rule.
LookupOf(rule) ==
  [url |-> "themealdb/filter.php",
   key |-> IF rule.type = "area" THEN "a" ELSE "c",
   value |-> rule.value]

\* C3: when the primary lookup delivered n >= 1 meals, fetchMealsByRule has returned
\* exactly the first min(n, 6) of them in the API's order and has issued no other
\* lookup.
C3_PrimarySuccess ==
  (FetchRunning /\ fn.frame.log[1].completed /\ fn.frame.log[1].n >= 1) =>
     /\ fn.pc = "returned"
     /\ fn.ret = FirstSix(fn.frame.log[1].n)
     /\ Len(fn.frame.log) = 1
     /\ fn.frame.log[1].lookup = LookupOf(fn.arg)

\* The primary lookup delivered seven meals and six were returned.
C3_Witness ==
  /\ FetchReturned
  /\ Len(fn.frame.log) = 1
  /\ fn.frame.log[1].n = 7
  /\ Len(fn.ret) = 6
  /\ fn.ret[1] = MealList(7)[1]

\* C4: whatever each meal lookup does (rejects, answers { meals: null }, an empty
\* list or results), fetchMealsByRule never throws to its caller; and when the
\* primary lookup and all six fallback lookups delivered nothing, it has returned
\* the empty list.
C4_NeverThrows ==
  (fn.op = "fetchMealsByRule") =>
     /\ fn.pc # "threw"
     /\ (/\ FetchRunning
         /\ Len(fn.frame.log) = 7
         /\ \A k \in 1..7 : fn.frame.log[k].completed /\ fn.frame.log[k].n = 0)
        => (fn.pc = "returned" /\ fn.ret = << >>)

\* Seven lookups failed, a rejection among them, and [] was returned.
C4_Witness ==
  /\ FetchReturned
  /\ fn.frame.caught
  /\ Len(fn.frame.log) = 7
  /\ \A k \in 1..7 : fn.frame.log[k].n = 0
  /\ fn.ret = << >>

C9_Safety ==
  FetchRunning =>
    LET log == fn.frame.log
        fallbacks == { LookupOf(DEFAULT_PAIRINGS_DECL[j]) : j \in 1..Len(DEFAULT_PAIRINGS_DECL) }
    IN  \* the cascade starts only after the primary lookup delivered nothing
        /\ (fn.frame.pc = "fallback" \/ Len(log) >= 2) =>
             (log[1].completed /\ log[1].n = 0)
        \* the order tried is a permutation of DEFAULT_PAIRINGS
        /\ fn.frame.shuffled # << >> =>
             /\ Len(fn.frame.shuffled) = Len(DEFAULT_PAIRINGS_DECL)
             /\ Elements(fn.frame.shuffled) = Elements(DEFAULT_PAIRINGS_DECL)
        /\ \A k \in 2..Len(log) :
             /\ log[k].lookup \in fallbacks
             /\ log[k].lookup = LookupOf(fn.frame.shuffled[k - 1])
             /\ \A h \in 2..Len(log) : h # k => log[h].lookup # log[k].lookup
        \* one lookup at a time, and none after one that delivered meals
        /\ Cardinality(fn.frame.inflight) <= 1
        /\ \A k \in 1..(Len(log) - 1) : log[k].completed /\ log[k].n = 0
        /\ Len(log) <= 7
        \* the result is that of the first lookup that delivered meals
        /\ fn.pc = "returned" =>
             /\ log[Len(log)].completed
             /\ IF log[Len(log)].n >= 1
                  THEN fn.ret = FirstSix(log[Len(log)].n)
                  ELSE fn.ret = << >> /\ Len(log) = 7

\* C9: the fallback cascade starts only after the primary lookup failed or
\* delivered nothing; it tries the rules of a permutation of DEFAULT_PAIRINGS, each
\* at most once and one at a time; it returns the first min(n, 6) results of the
\* first fallback that delivers n >= 1 and issues no lookup after it, so a call
\* issues at most 7 lookups; and a call whose lookups all complete returns.
C9_FallbackCascade ==
  /\ []C9_Safety
  /\ (fn.op = "fetchMealsByRule" /\ fn.pc = "called") ~> (fn.pc = "returned")

\* The third fallback was the first lookup to deliver meals.
C9_Witness ==
  /\ FetchReturned
  /\ Len(fn.frame.log) = 4
  /\ fn.frame.log[4].n = 7
  /\ Len(fn.ret) = 6
  /\ fn.frame.shuffled[1] # DEFAULT_PAIRINGS_DECL[1]

---------------------------------------------------------------------------
(* Claims about the routes. *)

Handled == DOMAIN reqs

\* The handler of r has been given a drink by random.php or lookup.php.
GotDrink(r) ==
  /\ reqs[r].route \in {"random", "drink"}
  /\ reqs[r].calls[1].state = "answered"
  /\ reqs[r].calls[1].n >= 1

\* Every meal lookup of r so far was rejected or delivered nothing.
NoMealsDelivered(r) ==
  \A k \in 1..Len(reqs[r].frame.log) : reqs[r].frame.log[k].n = 0

\* C5: on /random and /drink/:id, once the cocktail lookup has delivered a drink,
\* the only response is the cocktail page of that drink, whatever the meal lookups
\* do; when all of them fail or deliver nothing the page carries an empty meal
\* list, and the error page is never rendered.
C5_CocktailPageAlways ==
  \A r \in Handled :
    GotDrink(r) =>
      /\ \A k \in 1..Len(reqs[r].res) :
           /\ reqs[r].res[k].kind = "render"
           /\ reqs[r].res[k].view = "cocktail"
           /\ reqs[r].res[k].locals.drink \in { normalizeDrinkDetails(Margarita),
                                                normalizeDrinkDetails(IcedSoda) }
           /\ reqs[r].res[k].locals.drink.idDrink = reqs[r].drink.idDrink
           /\ NoMealsDelivered(r) => reqs[r].res[k].locals.meals = << >>
      /\ reqs[r].pc = "done" => Len(reqs[r].res) = 1

\* A drink page rendered with no meals after a rejected lookup and six more
\* lookups that delivered nothing.
C5_Witness ==
  \E r \in Handled :
    /\ reqs[r].route = "drink" /\ reqs[r].pc = "done"
    /\ GotDrink(r)
    /\ reqs[r].frame.caught
    /\ Len(reqs[r].frame.log) = 7
    /\ NoMealsDelivered(r)
    /\ reqs[r].res[1].view = "cocktail"
    /\ reqs[r].res[1].locals.meals = << >>

\* The message each route shows when its own API call fails.
RouteMessage(route) ==
  CASE route = "home"     -> "Failed to load home page data. Please try again."
    [] route = "search"   -> "Search failed. Please try different terms."
    [] route = "random"   -> "Could not fetch a random cocktail right now."
    [] route = "drink"    -> "Could not load drink details."
    [] route = "category" -> "Could not load category."

ErrorPage(message) == [kind |-> "render", view |-> "error", locals |-> [message |-> message]]

\* C7: in every route, a failure of the handler's own upstream call is caught and
\* the request ends with exactly one response, the error page with that route's
\* message; no request ends without a response or is answered twice; and a drink
\* lookup that delivers no drink renders the error page with no pairing lookup
\* issued.
C7_OneResponsePerRequest ==
  \A r \in Handled :
    LET req == reqs[r]
    IN  /\ Len(req.res) <= 1
        /\ req.pc = "done" <=> Len(req.res) = 1
        /\ \A k \in 1..Len(req.calls) :
             req.calls[k].state = "rejected" =>
               /\ req.pc = "done"
               /\ req.res = << ErrorPage(RouteMessage(req.route)) >>
        /\ (/\ req.route \in {"random", "drink"}
            /\ req.calls[1].state = "answered"
            /\ req.calls[1].n = 0) =>
             /\ req.pc = "done"
             /\ req.res[1].view = "error"
             /\ req.frame = Undefined

\* /random answered with no drink: the error page, and no meal lookup.
C7_Witness ==
  \E r \in Handled :
    /\ reqs[r].route = "random" /\ reqs[r].pc = "done"
    /\ reqs[r].calls[1].state = "answered" /\ reqs[r].calls[1].n = 0
    /\ reqs[r].res = << ErrorPage("Could not fetch a random cocktail right now.") >>
    /\ reqs[r].frame = Undefined

\* A form field that is absent, empty or whitespace only.
BlankField(v) == v.t # "string" \/ v.core = ""

\* C8: a search whose name and ingredient are both absent, empty or whitespace
\* only is answered with a redirect to the home page and issues no upstream call;
\* a search with a non-blank name is by name, even if an ingredient is given.
C8_BlankSearchRedirects ==
  \A r \in Handled :
    reqs[r].route = "search" =>
      LET body == reqs[r].input.body
      IN  /\ (BlankField(body.name) /\ BlankField(body.ingredient)) =>
                /\ reqs[r].pc = "done"
                /\ reqs[r].res = << [kind |-> "redirect", to |-> "/"] >>
                /\ reqs[r].calls = << >>
                /\ reqs[r].frame = Undefined
          /\ ~BlankField(body.name) =>
                /\ Len(reqs[r].calls) = 1
                /\ reqs[r].calls[1].call.url = "thecocktaildb/search.php"
                /\ reqs[r].calls[1].call.key = "s"
                /\ reqs[r].calls[1].call.value = Raw(body.name.core, body.name.upper, FALSE)

\* A whitespace-only name and no ingredient: redirected.
C8_Witness ==
  \E r \in Handled :
    /\ reqs[r].route = "search"
    /\ reqs[r].input.body.name = Raw("", FALSE, TRUE)
    /\ reqs[r].input.body.ingredient = Undefined
    /\ reqs[r].res = << [kind |-> "redirect", to |-> "/"] >>

\* C10: under every interleaving of the handlers of concurrent requests, FILLERS,
\* PAIRING_CANDIDATES and DEFAULT_PAIRINGS keep the contents and order they were
\* declared with: the fallback shuffle sorts a copy.
C10_TablesNeverChange ==
  /\ FILLERS = FILLERS_DECL
  /\ PAIRING_CANDIDATES = PAIRING_CANDIDATES_DECL
  /\ DEFAULT_PAIRINGS = DEFAULT_PAIRINGS_DECL

\* Two requests are inside their fallback cascades at once, in different orders.
C10_Witness ==
  \E r, q \in Handled :
    /\ r # q
    /\ reqs[r].pc = "meals" /\ reqs[r].frame.pc = "fallback"
    /\ reqs[q].pc = "meals" /\ reqs[q].frame.pc = "fallback"
    /\ reqs[r].frame.shuffled # reqs[q].frame.shuffled
    /\ reqs[r].frame.shuffled # DEFAULT_PAIRINGS_DECL

=============================================================================
